---- MODULE Spec2Model ----
(***************************************************************************)
(* vega-assistant: the data-node setup command.                            *)
(*                                                                         *)
(*   Spec      dataNodeSetup: the interview (state.Run) followed by the    *)
(*             provisioning pipeline DataNodeGenerator.Run, one action per *)
(*             external call of the pipeline.                              *)
(*   SpecSQL   generator.AskSQLCredentials, one action per prompt.         *)
(*   SpecPath  generator.AskPath, one action per entered line.             *)
(*                                                                         *)
(* Strings that the code parses (block height, port, repository) are       *)
(* sequences of one-character strings; all other strings are TLA+ strings. *)
(* An error value is the sequence of its wrapping messages, outermost      *)
(* first; nil is the empty sequence.                                       *)
(***************************************************************************)
EXTENDS Integers, Sequences, FiniteSets, TLC

\* ------------------------------------------------------------------ bounds
MaxTextLen   == 2      \* longest block-height / port text that is explored
MaxRounds    == 2      \* collection rounds of AskSQLCredentials that are explored
MaxAsks      == 3      \* lines entered at one AskPath prompt that are explored

\* ----------------------------------------------------------- Go primitives
nil == << >>

Wrap(msg, err) == <<msg>> \o err

Chars == {"0", "1", "9", "-", "+", "x"}

Digits == {"0", "1", "2", "3", "4", "5", "6", "7", "8", "9"}

DigitVal(c) ==
    CASE c = "0" -> 0 [] c = "1" -> 1 [] c = "2" -> 2 [] c = "3" -> 3
      [] c = "4" -> 4 [] c = "5" -> 5 [] c = "6" -> 6 [] c = "7" -> 7
      [] c = "8" -> 8 [] c = "9" -> 9

RECURSIVE ParseDigits(_)
ParseDigits(s) ==
    IF s = << >> THEN 0
    ELSE 10 * ParseDigits(SubSeq(s, 1, Len(s) - 1)) + DigitVal(s[Len(s)])

AllDigits(s) == \A i \in 1..Len(s) : s[i] \in Digits

\* strconv.Atoi: an optional sign, then one or more decimal digits.  The texts
\* explored have at most MaxTextLen + 1 characters, far from the int range.
Atoi(s) ==
    LET signed == Len(s) > 0 /\ s[1] \in {"+", "-"}
        body   == IF signed THEN Tail(s) ELSE s
    IN  IF body = << >> \/ ~AllDigits(body)
        THEN [ok |-> FALSE, v |-> 0]
        ELSE [ok |-> TRUE,
              v  |-> IF signed /\ s[1] = "-" THEN 0 - ParseDigits(body)
                     ELSE ParseDigits(body)]

RECURSIVE Join(_, _)
Join(list, sep) ==
    IF list = << >> THEN ""
    ELSE IF Len(list) = 1 THEN list[1]
    ELSE list[1] \o sep \o Join(Tail(list), sep)

\* strings.Split(s, sep) for a one-character separator: the pieces, as strings.
RECURSIVE Split(_, _)
Split(s, sep) ==
    IF s = << >> THEN <<"">>
    ELSE LET rest == Split(Tail(s), sep)
         IN  IF Head(s) = sep THEN <<"">> \o rest
             ELSE <<Head(s) \o rest[1]>> \o Tail(rest)

\* runtime.GOOS and runtime.GOARCH of the build.
GOOS   == "linux"
GOARCH == "amd64"

\* A configuration value carries its Go type.
StrV(s)   == [t |-> "string", v |-> s]
IntV(n)   == [t |-> "int", v |-> n]
BoolV(b)  == [t |-> "bool", v |-> b]
FloatV(n) == [t |-> "float", v |-> n]
ListV(l)  == [t |-> "[]string", v |-> l]

EmptyMap == [k \in {} |-> TRUE]

\* ------------------------------------------------------- network parameters
MainnetConfig ==
    [GenesisVersion |-> "v0.72.14",
     Repository     |-> <<"v", "e", "g", "a", "p", "r", "o", "t", "o", "c", "o", "l",
                          "/", "v", "e", "g", "a">>,
     GenesisURL     |-> "https://raw.githubusercontent.com/vegaprotocol/networks/master/mainnet1/genesis.json",
     TendermintSeeds |->
        <<"b0db58f5651c85385f588bd5238b42bedbe57073@13.125.55.240:26656",
          "abe207dae9367995526812d42207aeab73fd6418@18.158.4.175:26656",
          "198ecd046ebb9da0fc5a3270ee9a1aeef57a76ff@144.76.105.240:26656",
          "211e435c2162aedb6d687409d5d7f67399d198a9@65.21.60.252:26656",
          "c5b11e1d819115c4f3974d14f76269e802f3417b@34.88.191.54:26656",
          "61051c21f083ee30c835a34a0c17c5d1ceef3c62@51.178.75.45:26656">>,
     TendermintRPCServers |->
        <<"api0.vega.community:26657", "api1.vega.community:26657",
          "api2.vega.community:26657", "api3.vega.community:26657">>,
     BootstrapPeers |->
        <<"/dns/api1.vega.community/tcp/4001/ipfs/12D3KooWDZrusS1p2XyJDbCaWkVDCk2wJaKi6tNb4bjgSHo9yi5Q",
          "/dns/api2.vega.community/tcp/4001/ipfs/12D3KooWEH9pQd6P7RgNEpwbRyavWcwrAdiy9etivXqQZzd7Jkrh",
          "/dns/api3.vega.community/tcp/4001/ipfs/12D3KooWHSoYzEqSfUWEXfFbSnmRhWcP2WgZG2GRT8fzZzio5BTY">>]

\* ------------------------------------------------------------ settings record
StartFromBlock0         == "StartFromBlock0"
StartFromNetworkHistory == "StartFromNetworkHistory"

StartupModes == {StartFromBlock0, StartFromNetworkHistory}

Versions == {"v0.72.14", "v0.73.0"}

RECURSIVE TextsOfLen(_)
TextsOfLen(n) ==
    IF n = 0 THEN { << >> }
    ELSE { Append(s, c) : s \in TextsOfLen(n - 1), c \in Chars }

Texts == UNION { TextsOfLen(n) : n \in 0..MaxTextLen }

BlockHashes == {"", "ABC"}

DefaultSQLCredentials ==
    [Host |-> "localhost", Port |-> 5432, User |-> "vega", Pass |-> "vega",
     DatabaseName |-> "vega"]

\* Credentials the SQL prompts can return.
ConfigSQLCredentials ==
    { DefaultSQLCredentials,
      [Host |-> "db.internal", Port |-> 6432, User |-> "admin",
       Pass |-> "secret", DatabaseName |-> "mainnet"] }

\* Settings records of every mode, version and snapshot.
SettingsSpace ==
    { [Mode           |-> m,
       MainnetVersion |-> ver,
       MainnetChainId |-> "vega-mainnet-0011",
       VisorHome      |-> "/home/vega/vegavisor_home",
       VegaHome       |-> "/home/vega/vega_home",
       TendermintHome |-> "/home/vega/tendermint_home",
       DataNodeHome   |-> "/home/vega/data_node_home",
       SQLCredentials |-> DefaultSQLCredentials,
       LatestSnapshot |-> [BlockHeight |-> h, BlockHash |-> hash]] :
        m \in StartupModes, ver \in Versions, h \in Texts, hash \in BlockHashes }

NoSettings ==
    [Mode           |-> "",
     MainnetVersion |-> "",
     MainnetChainId |-> "",
     VisorHome      |-> "",
     VegaHome       |-> "",
     TendermintHome |-> "",
     DataNodeHome   |-> "",
     SQLCredentials |-> [Host |-> "", Port |-> 0, User |-> "", Pass |-> "",
                         DatabaseName |-> ""],
     LatestSnapshot |-> [BlockHeight |-> << >>, BlockHash |-> ""]]

\* --------------------------------------------------------------------- state
VARIABLES
    pc,               \* dataNodeSetup / Run: the call that is about to be made
    stateReturned,    \* state.Run has returned
    stateErr,         \* what state.Run returned (nil on success)
    userSettings,     \* DataNodeGenerator.userSettings
    networkConfig,    \* DataNodeGenerator.networkConfig
    setupErr,         \* what dataNodeSetup returned (nil on success)
    runErr,           \* what Run returned (nil on success)
    runReturned,      \* Run has returned
    started,          \* the steps of Run that have started, in order
    failedStep,       \* the step of Run that failed, "" if none
    outputDir,        \* the staging directory exists
    removeAllCalled,  \* os.RemoveAll(outputDir) has been called
    homesInit,        \* the homes whose init has succeeded, in order
    initStarted,      \* the homes whose init has started, in order
    visorEntries,     \* names of the entries of the supervisor home's root
    createdDirs,      \* directories the pipeline created under the supervisor home
    dirFiles,         \* files of each directory under the supervisor home
    currentLink,      \* target of the "current" symlink made by os.Symlink, or ""
    symlinkPre,       \* was "current" there when os.Symlink was called:
                      \* "untried", "absent" or "present"
    dataNodeConfig,   \* updateConfigs: the four key sets
    vegaConfig,
    tendermintConfig,
    vegavisorConfig,
    docs,             \* the four configuration documents on disk
    genesisFile,      \* genesis.json has been downloaded to the tendermint home
    \* AskSQLCredentials
    sq,               \* the prompt or call that is next
    dbHost, dbPort, dbUser, dbPass, dbName,
    sqlCreds,         \* the returned *types.SQLCredentials
    sqlErr,           \* the returned error
    round,            \* iterations of the for loop that have begun
    entered,          \* what the operator supplied in this iteration
    askedRound,       \* the fields asked in this iteration, in order
    lastCheck,        \* the last call of checkFunc: its argument, whether it failed
    numChecks,        \* the calls of checkFunc so far
    tryAgainAsked,    \* how many times the try-again question was answered
    tryAgain,         \* the answer to the last try-again question
    \* AskPath
    pp,               \* "ask" or "returned"
    files,            \* the paths that exist on the file system
    pathResponse,     \* the returned path
    pathErr,          \* the returned error
    lastLine,         \* the line entered last
    lastExisted,      \* utils.FileExists of that line when it was validated
    pathAsks,         \* lines entered so far
    \* the AskPaths state of the interview
    homePaths,        \* the home directories answered so far, in order
    homePathsErr,     \* the error that ended AskPaths, nil if none
    \* the setup state machine behind state.Run
    smState,          \* the state the machine is in, "done" or "failed" at its end
    smVisited,        \* the states entered so far, in order
    smSettings,       \* state.Settings, built one field group per state
    smErr,            \* the error the machine ended with, nil if none
    snapshotQuery     \* the network-history query: "unasked", "found", "none", "error"

pipelineVars ==
    <<pc, stateReturned, stateErr, userSettings, networkConfig, setupErr, runErr, runReturned, started,
      failedStep, outputDir, removeAllCalled, homesInit, initStarted, visorEntries, createdDirs,
      dirFiles, currentLink, symlinkPre, dataNodeConfig, vegaConfig,
      tendermintConfig, vegavisorConfig, docs, genesisFile>>

sqlVars ==
    <<sq, dbHost, dbPort, dbUser, dbPass, dbName, sqlCreds, sqlErr, round,
      entered, askedRound, lastCheck, numChecks, tryAgainAsked, tryAgain>>

pathVars ==
    <<pp, files, pathResponse, pathErr, lastLine, lastExisted, pathAsks,
      homePaths, homePathsErr>>

smVars == <<smState, smVisited, smSettings, smErr, snapshotQuery>>

\* Everything the interview owns: no step of Run touches it.
uiVars == <<sqlVars, pathVars, smVars>>

vars == <<pipelineVars, sqlVars, pathVars, smVars>>

Homes == <<"visor", "tendermint", "vega", "data-node">>

InitPipeline ==
    /\ pc = "stateRun"
    /\ stateReturned = FALSE
    /\ stateErr = nil
    /\ userSettings = NoSettings
    /\ networkConfig = MainnetConfig
    /\ setupErr = nil
    /\ runErr = nil
    /\ runReturned = FALSE
    /\ started = << >>
    /\ failedStep = ""
    /\ outputDir = FALSE
    /\ removeAllCalled = FALSE
    /\ homesInit = << >>
    /\ initStarted = << >>
    /\ visorEntries = {}
    /\ createdDirs = {}
    /\ dirFiles = EmptyMap
    /\ currentLink = ""
    /\ symlinkPre = "untried"
    /\ dataNodeConfig = EmptyMap
    /\ vegaConfig = EmptyMap
    /\ tendermintConfig = EmptyMap
    /\ vegavisorConfig = EmptyMap
    /\ docs = [d \in {"data-node", "vega", "tendermint", "visor"} |-> EmptyMap]
    /\ genesisFile = FALSE

genVars  == <<stateReturned, stateErr, userSettings, networkConfig>>
retVars  == <<setupErr, runErr, runReturned, failedStep>>
\* Run has no statement that removes the staging directory: the
\* `defer os.RemoveAll(outputDir)` after MkdirTemp is commented out.
tmpVars  == <<outputDir, removeAllCalled>>
initVars == <<homesInit, initStarted>>
fsVars   == <<visorEntries, createdDirs, dirFiles, currentLink, symlinkPre>>
\* written only by updateConfigs and downloadGenesis
cfgVars  == <<dataNodeConfig, vegaConfig, tendermintConfig, vegavisorConfig,
              genesisFile>>

\* --------------------------------------------------------- control flow of Run
\* A step succeeded: Run goes on to its next call.
Continue(next) ==
    /\ pc' = next
    /\ UNCHANGED retVars

\* `return fmt.Errorf("...: %w", err)` in Run, then the wrap in dataNodeSetup.
RunFails(step, err) ==
    /\ failedStep' = step
    /\ runErr' = err
    /\ runReturned' = TRUE
    /\ setupErr' = Wrap("failed to setup data-node", err)
    /\ pc' = "returned"

\* `return nil` at the end of Run, then `return nil` in dataNodeSetup.
RunSucceeds ==
    /\ runErr' = nil
    /\ runReturned' = TRUE
    /\ setupErr' = nil
    /\ pc' = "returned"
    /\ UNCHANGED failedStep

\* ------------------------------------------------------------- dataNodeSetup
\* dataNodeSetup with the error of state.Run dropped.
StateRun_ErrorIgnored ==
    /\ pc = "stateRun"
    /\ stateReturned' = TRUE
    /\ smState \in {"done", "failed"}
    /\ stateErr' = smErr
    /\ userSettings' = smSettings
    /\ networkConfig' = MainnetConfig
    /\ pc' = "MkdirTemp"
    /\ UNCHANGED <<setupErr, runErr, runReturned, failedStep, started, tmpVars>>
    /\ UNCHANGED <<initVars, fsVars, cfgVars, docs>>
    /\ UNCHANGED uiVars

\* The return of state.Run(ui, network.MainnetConfig()), then
\* NewDataNodeGenerator(state.Settings, network.MainnetConfig()).
StateRun ==
    /\ pc = "stateRun"
    /\ stateReturned' = TRUE
    /\ smState \in {"done", "failed"}
    /\ stateErr' = smErr
    /\ IF smErr # nil
       THEN /\ setupErr' = Wrap("failed to generate data-node", smErr)
            /\ pc' = "returned"
            /\ UNCHANGED <<userSettings, networkConfig>>
       ELSE /\ userSettings' = smSettings
            /\ networkConfig' = MainnetConfig
            /\ pc' = "MkdirTemp"
            /\ UNCHANGED setupErr
    /\ UNCHANGED <<runErr, runReturned, failedStep, started, tmpVars>>
    /\ UNCHANGED <<initVars, fsVars, cfgVars, docs>>
    /\ UNCHANGED uiVars

\* ----------------------------------------------------------------------- Run
MkdirTemp ==
    /\ pc = "MkdirTemp"
    /\ \E ok \in BOOLEAN :
         IF ok
         THEN outputDir' = TRUE /\ Continue("DownloadVega")
         ELSE /\ RunFails("mkdirTemp", <<"failed to create temp dir", "mkdir">>)
              /\ UNCHANGED outputDir
    /\ UNCHANGED <<genVars, removeAllCalled, started, initVars, fsVars, cfgVars, docs>>
    /\ UNCHANGED uiVars

DownloadVega ==
    /\ pc = "DownloadVega"
    /\ started' = Append(started, "downloadVega")
    /\ \E ok \in BOOLEAN :
         IF ok
         THEN Continue("DownloadVisor")
         ELSE RunFails("downloadVega", <<"failed to download vega binary", "download">>)
    /\ UNCHANGED <<genVars, tmpVars, initVars, fsVars, cfgVars, docs>>
    /\ UNCHANGED uiVars

DownloadVisor ==
    /\ pc = "DownloadVisor"
    /\ started' = Append(started, "downloadVisor")
    /\ \E ok \in BOOLEAN :
         IF ok
         THEN Continue("VegaVersion")
         ELSE RunFails("downloadVisor", <<"failed to download visor binary", "download">>)
    /\ UNCHANGED <<genVars, tmpVars, initVars, fsVars, cfgVars, docs>>
    /\ UNCHANGED uiVars

\* VegaVersion with the `return` of its error branch missing.
VegaVersion_ErrorIgnored ==
    /\ pc = "VegaVersion"
    /\ started' = Append(started, "vegaVersion")
    /\ \E ok \in BOOLEAN :
         IF ok
         THEN Continue("VisorVersion")
         ELSE /\ failedStep' = "vegaVersion"
              /\ pc' = "VisorVersion"
              /\ UNCHANGED <<setupErr, runErr, runReturned>>
    /\ UNCHANGED <<genVars, tmpVars, initVars, fsVars, cfgVars, docs>>
    /\ UNCHANGED uiVars

VegaVersion ==
    /\ pc = "VegaVersion"
    /\ started' = Append(started, "vegaVersion")
    /\ \E ok \in BOOLEAN :
         IF ok
         THEN Continue("VisorVersion")
         ELSE RunFails("vegaVersion", <<"failed to check vega version", "exec">>)
    /\ UNCHANGED <<genVars, tmpVars, initVars, fsVars, cfgVars, docs>>
    /\ UNCHANGED uiVars

VisorVersion ==
    /\ pc = "VisorVersion"
    /\ started' = Append(started, "visorVersion")
    /\ \E ok \in BOOLEAN :
         IF ok
         THEN Continue("InitVisor")
         ELSE RunFails("visorVersion", <<"failed to check visor version", "exec">>)
    /\ UNCHANGED <<genVars, tmpVars, initVars, fsVars, cfgVars, docs>>
    /\ UNCHANGED uiVars

\* ------------------------------------------------------------------ initNode
\* What a home's init leaves in its configuration document: keys of its own.
InitialDoc(home) == (home \o ".moniker") :> StrV("node")

InitFails(msg) ==
    RunFails("initNode", <<"failed to init vega node", msg, "exec">>)

\* vegacmd.InitVisor.  What the supervisor home's root holds afterwards is up
\* to the supervisor binary and to what was at that path before.
InitVisor ==
    /\ pc = "InitVisor"
    /\ started' = Append(started, "initNode")
    /\ initStarted' = Append(initStarted, "visor")
    /\ \E ok \in BOOLEAN :
         IF ok
         THEN /\ homesInit' = Append(homesInit, "visor")
              /\ \E pre \in SUBSET {"current"} :
                    visorEntries' = {"config.toml"} \cup pre
              /\ docs' = [docs EXCEPT !["visor"] = InitialDoc("visor")]
              /\ Continue("InitTendermint")
         ELSE /\ InitFails("failed to initialize vegavisor")
              /\ UNCHANGED <<homesInit, visorEntries, docs>>
    /\ UNCHANGED <<genVars, tmpVars, createdDirs, dirFiles, currentLink,
                   symlinkPre, cfgVars>>
    /\ UNCHANGED uiVars

\* InitTendermint with the `return` of its error branch missing.
InitTendermint_ErrorIgnored ==
    /\ pc = "InitTendermint"
    /\ initStarted' = Append(initStarted, "tendermint")
    /\ \E ok \in BOOLEAN :
         IF ok
         THEN /\ homesInit' = Append(homesInit, "tendermint")
              /\ docs' = [docs EXCEPT !["tendermint"] = InitialDoc("tendermint")]
              /\ Continue("InitVega")
         ELSE /\ Continue("InitVega")
              /\ UNCHANGED <<homesInit, docs>>
    /\ UNCHANGED <<genVars, started, tmpVars, fsVars, cfgVars>>
    /\ UNCHANGED uiVars

InitTendermint ==
    /\ pc = "InitTendermint"
    /\ initStarted' = Append(initStarted, "tendermint")
    /\ \E ok \in BOOLEAN :
         IF ok
         THEN /\ homesInit' = Append(homesInit, "tendermint")
              /\ docs' = [docs EXCEPT !["tendermint"] = InitialDoc("tendermint")]
              /\ Continue("InitVega")
         ELSE /\ InitFails("failed to initialize tendermint")
              /\ UNCHANGED <<homesInit, docs>>
    /\ UNCHANGED <<genVars, started, tmpVars, fsVars, cfgVars>>
    /\ UNCHANGED uiVars

InitVega ==
    /\ pc = "InitVega"
    /\ initStarted' = Append(initStarted, "vega")
    /\ \E ok \in BOOLEAN :
         IF ok
         THEN /\ homesInit' = Append(homesInit, "vega")
              /\ docs' = [docs EXCEPT !["vega"] = InitialDoc("vega")]
              /\ Continue("InitDataNode")
         ELSE /\ InitFails("failed to initialize vega")
              /\ UNCHANGED <<homesInit, docs>>
    /\ UNCHANGED <<genVars, started, tmpVars, fsVars, cfgVars>>
    /\ UNCHANGED uiVars

InitDataNode ==
    /\ pc = "InitDataNode"
    /\ initStarted' = Append(initStarted, "data-node")
    /\ \E ok \in BOOLEAN :
         IF ok
         THEN /\ homesInit' = Append(homesInit, "data-node")
              /\ docs' = [docs EXCEPT !["data-node"] = InitialDoc("data-node")]
              /\ Continue("MkdirAll")
         ELSE /\ InitFails("failed to initialize data-node")
              /\ UNCHANGED <<homesInit, docs>>
    /\ UNCHANGED <<genVars, started, tmpVars, fsVars, cfgVars>>
    /\ UNCHANGED uiVars

\* ---------------------------------------------------------- prepareVisorHome
\* prepareVisorHome without its StartFromBlock0 branch.
prepareVisorHomeDir_AlwaysVersion(settings) == settings.MainnetVersion

\* The name of the directory of run-config.toml (runConfigDirPath under VisorHome).
prepareVisorHomeDir(settings) ==
    IF settings.Mode = StartFromBlock0 THEN "genesis" ELSE settings.MainnetVersion

PrepareFails(msg) ==
    RunFails("prepareVisorHome", <<"failed to prepare visor home", msg>>)

\* os.MkdirAll(runConfigDirPath, os.ModePerm): an existing directory is kept.
MkdirAll ==
    /\ pc = "MkdirAll"
    /\ started' = Append(started, "prepareVisorHome")
    /\ LET dir == prepareVisorHomeDir(userSettings)
       IN  \E ok \in BOOLEAN :
             IF ok
             THEN /\ visorEntries' = visorEntries \cup {dir}
                  /\ createdDirs' = createdDirs \cup {dir}
                  /\ dirFiles' = IF dir \in DOMAIN dirFiles THEN dirFiles
                                 ELSE dirFiles @@ (dir :> {})
                  /\ Continue("WriteRunConfig")
             ELSE /\ PrepareFails("failed to make directory")
                  /\ UNCHANGED <<visorEntries, createdDirs, dirFiles>>
    /\ UNCHANGED <<genVars, tmpVars, initVars, currentLink, symlinkPre,
                   cfgVars, docs>>
    /\ UNCHANGED uiVars

\* vegacmd.TemplateVisorRunConfig, then os.WriteFile(runConfigPath, ...).
WriteRunConfig ==
    /\ pc = "WriteRunConfig"
    /\ LET dir == prepareVisorHomeDir(userSettings)
       IN  \E outcome \in {"ok", "template", "write"} :
             CASE outcome = "ok" ->
                    /\ dirFiles' = [dirFiles EXCEPT
                                      ![dir] = @ \cup {"run-config.toml"}]
                    /\ Continue("CopyVisor")
               [] outcome = "template" ->
                    /\ PrepareFails("failed to generate run-config.toml from template")
                    /\ UNCHANGED dirFiles
               [] outcome = "write" ->
                    /\ PrepareFails("failed to write run-config.toml")
                    /\ UNCHANGED dirFiles
    /\ UNCHANGED <<genVars, started, tmpVars, initVars, visorEntries,
                   createdDirs, currentLink, symlinkPre, cfgVars, docs>>
    /\ UNCHANGED uiVars

\* -------------------------------------------------------------- copyBinaries
\* copyBinaries without its StartFromBlock0 branch.
copyBinariesVersion_AlwaysVersion(settings) == settings.MainnetVersion

\* `version` of copyBinaries: the directory the node binary and "current" use.
copyBinariesVersion(settings) ==
    IF settings.Mode = StartFromBlock0 THEN "genesis" ELSE settings.MainnetVersion

CopyFails(msg) ==
    RunFails("copyBinaries", <<"failed to copy binaries to visor home", msg>>)

\* utils.CopyFile(visorBinaryPath, <VisorHome>/visor)
CopyVisor ==
    /\ pc = "CopyVisor"
    /\ started' = Append(started, "copyBinaries")
    /\ \E ok \in BOOLEAN :
         IF ok
         THEN /\ visorEntries' = visorEntries \cup {"visor"}
              /\ Continue("CopyVega")
         ELSE /\ CopyFails("failed to copy visor binary")
              /\ UNCHANGED visorEntries
    /\ UNCHANGED <<genVars, tmpVars, initVars, createdDirs, dirFiles,
                   currentLink, symlinkPre, cfgVars, docs>>
    /\ UNCHANGED uiVars

\* copyBinaries assigning "genesis" to the settings' version instead of to its
\* local `version`.
CopyVega_OverwritesVersion ==
    /\ pc = "CopyVega"
    /\ userSettings' =
         IF userSettings.Mode = StartFromBlock0
         THEN [userSettings EXCEPT !.MainnetVersion = "genesis"]
         ELSE userSettings
    /\ LET dir == userSettings'.MainnetVersion
       IN  \E ok \in (IF dir \in visorEntries THEN BOOLEAN ELSE {FALSE}) :
             IF ok
             THEN /\ dirFiles' = [dirFiles EXCEPT ![dir] = @ \cup {"vega"}]
                  /\ Continue("Symlink")
             ELSE /\ CopyFails("failed to copy vega binary")
                  /\ UNCHANGED dirFiles
    /\ UNCHANGED <<stateReturned, stateErr, networkConfig, started, tmpVars,
                   initVars, visorEntries, createdDirs, currentLink, symlinkPre,
                   cfgVars, docs>>
    /\ UNCHANGED uiVars

\* utils.CopyFile(vegaBinaryPath, <VisorHome>/<version>/vega): the file cannot
\* be created when its directory is missing.
CopyVega ==
    /\ pc = "CopyVega"
    /\ LET dir == copyBinariesVersion(userSettings)
       IN  \E ok \in (IF dir \in visorEntries THEN BOOLEAN ELSE {FALSE}) :
             IF ok
             THEN /\ dirFiles' = [dirFiles EXCEPT ![dir] = @ \cup {"vega"}]
                  /\ Continue("Symlink")
             ELSE /\ CopyFails("failed to copy vega binary")
                  /\ UNCHANGED dirFiles
    /\ UNCHANGED <<genVars, started, tmpVars, initVars, visorEntries,
                   createdDirs, currentLink, symlinkPre, cfgVars, docs>>
    /\ UNCHANGED uiVars

\* os.Symlink(oldname, newname) fails with EEXIST when newname exists; it
\* never replaces an entry.
SymlinkOutcomes(exists) == IF exists THEN {FALSE} ELSE {TRUE, FALSE}

\* os.Symlink(versionDirectory, <VisorHome>/current)
Symlink ==
    /\ pc = "Symlink"
    /\ symlinkPre' = IF "current" \in visorEntries THEN "present" ELSE "absent"
    /\ \E ok \in SymlinkOutcomes("current" \in visorEntries) :
         IF ok
         THEN /\ currentLink' = copyBinariesVersion(userSettings)
              /\ visorEntries' = visorEntries \cup {"current"}
              /\ Continue("BuildConfigs")
         ELSE /\ CopyFails("failed to create symlink")
              /\ UNCHANGED <<currentLink, visorEntries>>
    /\ UNCHANGED <<genVars, started, tmpVars, initVars, createdDirs, dirFiles,
                   cfgVars, docs>>
    /\ UNCHANGED uiVars

\* ------------------------------------------------------------- updateConfigs
dataNodeConfigBase(settings, net) ==
    ("SQLStore.ConnectionConfig.Host"     :> StrV(settings.SQLCredentials.Host)) @@
    ("SQLStore.ConnectionConfig.Port"     :> IntV(settings.SQLCredentials.Port)) @@
    ("SQLStore.ConnectionConfig.Username" :> StrV(settings.SQLCredentials.User)) @@
    ("SQLStore.ConnectionConfig.Password" :> StrV(settings.SQLCredentials.Pass)) @@
    ("SQLStore.ConnectionConfig.Database" :> StrV(settings.SQLCredentials.DatabaseName)) @@
    ("SQLStore.WipeOnStartup"              :> BoolV(TRUE)) @@
    ("NetworkHistory.Store.BootstrapPeers" :> ListV(net.BootstrapPeers)) @@
    ("NetworkHistory.Initialise.Timeout"   :> StrV("4h")) @@
    ("API.RateLimit.Rate"                  :> FloatV(300)) @@
    ("API.RateLimit.Burst"                 :> IntV(1000))

vegaConfigBase ==
    ("Snapshot.StartHeight"      :> IntV(0 - 1)) @@
    ("Broker.Socket.Enabled"     :> BoolV(TRUE)) @@
    ("Broker.Socket.DialTimeout" :> StrV("4h"))

\* The base key set with a trust hash in it.
tendermintConfigBase_WithTrustHash(net) ==
    ("p2p.seeds"              :> StrV(Join(net.TendermintSeeds, ","))) @@
    ("pex"                    :> BoolV(TRUE)) @@
    ("statesync.enable"       :> BoolV(FALSE)) @@
    ("statesync.rpc_servers"  :> StrV(Join(net.TendermintRPCServers, ","))) @@
    ("statesync.trust_hash"   :> StrV("")) @@
    ("statesync.trust_period" :> StrV("672h0m0s"))

tendermintConfigBase(net) ==
    ("p2p.seeds"              :> StrV(Join(net.TendermintSeeds, ","))) @@
    ("pex"                    :> BoolV(TRUE)) @@
    ("statesync.enable"       :> BoolV(FALSE)) @@
    ("statesync.rpc_servers"  :> StrV(Join(net.TendermintRPCServers, ","))) @@
    ("statesync.trust_period" :> StrV("672h0m0s"))

\* The asset named after the repository instead of after the node binary.
vegavisorConfigBase_AssetFromRepository(net) ==
    ("maxNumberOfFirstConnectionRetries" :> IntV(43200)) @@
    ("autoInstall.enabled"               :> BoolV(TRUE)) @@
    ("autoInstall.repositoryOwner"       :> StrV(Split(net.Repository, "/")[1])) @@
    ("autoInstall.repository"            :> StrV(Split(net.Repository, "/")[2])) @@
    ("autoInstall.asset.name"            :> StrV(Split(net.Repository, "/")[2] \o "-" \o GOOS \o "-" \o GOARCH \o ".zip")) @@
    ("autoInstall.asset.binaryName"      :> StrV("vega"))

vegavisorConfigBase(net) ==
    ("maxNumberOfFirstConnectionRetries" :> IntV(43200)) @@
    ("autoInstall.enabled"               :> BoolV(TRUE)) @@
    ("autoInstall.repositoryOwner"       :> StrV(Split(net.Repository, "/")[1])) @@
    ("autoInstall.repository"            :> StrV(Split(net.Repository, "/")[2])) @@
    ("autoInstall.asset.name"            :> StrV("vega-" \o GOOS \o "-" \o GOARCH \o ".zip")) @@
    ("autoInstall.asset.binaryName"      :> StrV("vega"))

\* The StartFromNetworkHistory branch without its data-node assignment.
dataNodeConfigNetworkHistory_FlagMissing(base) == base

\* The assignments of the StartFromNetworkHistory branch.
dataNodeConfigNetworkHistory(base) ==
    ("AutoInitialiseFromNetworkHistory" :> BoolV(TRUE)) @@ base

\* The branch storing the block height as it came, unparsed.
tendermintConfigNetworkHistory_HeightAsString(base, trustHeight, blockHash) ==
    ("statesync.enable"       :> BoolV(TRUE)) @@
    ("statesync.trust_height" :> [t |-> "string", v |-> trustHeight]) @@
    ("statesync.trust_hash"   :> StrV(blockHash)) @@
    base

tendermintConfigNetworkHistory(base, trustHeight, blockHash) ==
    ("statesync.enable"       :> BoolV(TRUE)) @@
    ("statesync.trust_height" :> IntV(trustHeight)) @@
    ("statesync.trust_hash"   :> StrV(blockHash)) @@
    base

UpdateFails(msgs) ==
    RunFails("updateConfigs", <<"failed to update config files for the node">> \o msgs)

\* updateConfigs without the check of the block hash: an empty hash goes on
\* to the conversion of the height.
BuildConfigs_NoEmptyHashCheck ==
    /\ pc = "BuildConfigs"
    /\ started' = Append(started, "updateConfigs")
    /\ vegaConfig' = vegaConfigBase
    /\ vegavisorConfig' = vegavisorConfigBase(networkConfig)
    /\ LET snapshot    == userSettings.LatestSnapshot
           trustHeight == Atoi(snapshot.BlockHeight)
           dnBase      == dataNodeConfigBase(userSettings, networkConfig)
           tmBase      == tendermintConfigBase(networkConfig)
       IN  IF userSettings.Mode = StartFromNetworkHistory
           THEN IF ~trustHeight.ok
                THEN /\ dataNodeConfig' = dnBase
                     /\ tendermintConfig' = tmBase
                     /\ UpdateFails(<<"failed to convert trust block height from string to int", "strconv.Atoi">>)
                ELSE /\ dataNodeConfig' = dataNodeConfigNetworkHistory(dnBase)
                     /\ tendermintConfig' =
                          tendermintConfigNetworkHistory(tmBase, trustHeight.v,
                                                         snapshot.BlockHash)
                     /\ Continue("UpdateDataNodeConfig")
           ELSE /\ dataNodeConfig' = dnBase
                /\ tendermintConfig' = tmBase
                /\ Continue("UpdateDataNodeConfig")
    /\ UNCHANGED <<genVars, tmpVars, initVars, fsVars, docs, genesisFile>>
    /\ UNCHANGED uiVars

\* updateConfigs up to its first UpdateConfig call: the four key sets and the
\* mode branch with its two early returns.
BuildConfigs ==
    /\ pc = "BuildConfigs"
    /\ started' = Append(started, "updateConfigs")
    /\ vegaConfig' = vegaConfigBase
    /\ vegavisorConfig' = vegavisorConfigBase(networkConfig)
    /\ LET snapshot    == userSettings.LatestSnapshot
           trustHeight == Atoi(snapshot.BlockHeight)
           dnBase      == dataNodeConfigBase(userSettings, networkConfig)
           tmBase      == tendermintConfigBase(networkConfig)
       IN  IF userSettings.Mode = StartFromNetworkHistory
           THEN IF snapshot.BlockHash = ""
                THEN /\ dataNodeConfig' = dnBase
                     /\ tendermintConfig' = tmBase
                     /\ UpdateFails(<<"cannot start vega from the network-history when latest snapshot is empty">>)
                ELSE IF ~trustHeight.ok
                THEN /\ dataNodeConfig' = dnBase
                     /\ tendermintConfig' = tmBase
                     /\ UpdateFails(<<"failed to convert trust block height from string to int", "strconv.Atoi">>)
                ELSE /\ dataNodeConfig' = dataNodeConfigNetworkHistory(dnBase)
                     /\ tendermintConfig' =
                          tendermintConfigNetworkHistory(tmBase, trustHeight.v,
                                                         snapshot.BlockHash)
                     /\ Continue("UpdateDataNodeConfig")
           ELSE /\ dataNodeConfig' = dnBase
                /\ tendermintConfig' = tmBase
                /\ Continue("UpdateDataNodeConfig")
    /\ UNCHANGED <<genVars, tmpVars, initVars, fsVars, docs, genesisFile>>
    /\ UNCHANGED uiVars

\* utils.UpdateConfig(path, "toml", keys): the listed keys are set, every other
\* key of the document is kept.
UpdateConfig(doc, keys) == keys @@ doc

UpdateDataNodeConfig ==
    /\ pc = "UpdateDataNodeConfig"
    /\ \E ok \in BOOLEAN :
         IF ok
         THEN /\ docs' = [docs EXCEPT !["data-node"] = UpdateConfig(@, dataNodeConfig)]
              /\ Continue("UpdateVegaConfig")
         ELSE /\ UpdateFails(<<"failed to update the data-node config", "config">>)
              /\ UNCHANGED docs
    /\ UNCHANGED <<genVars, started, tmpVars, initVars, fsVars, cfgVars>>
    /\ UNCHANGED uiVars

UpdateVegaConfig ==
    /\ pc = "UpdateVegaConfig"
    /\ \E ok \in BOOLEAN :
         IF ok
         THEN /\ docs' = [docs EXCEPT !["vega"] = UpdateConfig(@, vegaConfig)]
              /\ Continue("UpdateTendermintConfig")
         ELSE /\ UpdateFails(<<"failed to update the vega config", "config">>)
              /\ UNCHANGED docs
    /\ UNCHANGED <<genVars, started, tmpVars, initVars, fsVars, cfgVars>>
    /\ UNCHANGED uiVars

UpdateTendermintConfig ==
    /\ pc = "UpdateTendermintConfig"
    /\ \E ok \in BOOLEAN :
         IF ok
         THEN /\ docs' = [docs EXCEPT !["tendermint"] = UpdateConfig(@, tendermintConfig)]
              /\ Continue("UpdateVegavisorConfig")
         ELSE /\ UpdateFails(<<"failed to update the tendermint config", "config">>)
              /\ UNCHANGED docs
    /\ UNCHANGED <<genVars, started, tmpVars, initVars, fsVars, cfgVars>>
    /\ UNCHANGED uiVars

UpdateVegavisorConfig ==
    /\ pc = "UpdateVegavisorConfig"
    /\ \E ok \in BOOLEAN :
         IF ok
         THEN /\ docs' = [docs EXCEPT !["visor"] = UpdateConfig(@, vegavisorConfig)]
              /\ Continue("DownloadGenesis")
         ELSE /\ UpdateFails(<<"failed to update vegavisor config", "config">>)
              /\ UNCHANGED docs
    /\ UNCHANGED <<genVars, started, tmpVars, initVars, fsVars, cfgVars>>
    /\ UNCHANGED uiVars

\* ----------------------------------------------------------- downloadGenesis
\* utils.DownloadFile(GenesisURL, <TendermintHome>/genesis.json), the last step
\* of Run.
DownloadGenesis ==
    /\ pc = "DownloadGenesis"
    /\ started' = Append(started, "downloadGenesis")
    /\ \E ok \in BOOLEAN :
         IF ok
         THEN /\ genesisFile' = TRUE
              /\ RunSucceeds
         ELSE /\ RunFails("downloadGenesis",
                          <<"failed to download genesis", "failed to download genesis", "http">>)
              /\ UNCHANGED genesisFile
    /\ UNCHANGED <<genVars, tmpVars, initVars, fsVars, dataNodeConfig,
                   vegaConfig, tendermintConfig, vegavisorConfig, docs>>
    /\ UNCHANGED uiVars

\* ========================================================= AskSQLCredentials
\* types.NewInputError(err): the error of the distinct InputError kind.
NewInputError(err) == <<"InputError">> \o err

Hosts         == {"localhost", "db.internal"}
Users         == {"vega"}
Passwords     == {"vega", "secret"}
DatabaseNames == {"vega"}

\* Lines entered at the port prompt ("5432" is the default).
PortLines ==
    { <<"5", "4", "3", "2">>, <<"0">>, <<"-", "1">>, <<"7", "0", "0", "0", "0">>,
      <<"x">>, <<"5", "4", "3", "x">> }

Answers == {"Yes", "yes", "No", "NO", "no", "maybe"}

\* strings.ToLower on the answers.
ToLower(s) ==
    CASE s = "Yes" -> "yes"
      [] s = "No"  -> "no"
      [] s = "NO"  -> "no"
      [] OTHER     -> s

NoCredentials ==
    [Host |-> "", User |-> "", Port |-> 0, Pass |-> "", DatabaseName |-> ""]

NothingEntered ==
    [Host |-> "", Port |-> << >>, User |-> "", Pass |-> "", DatabaseName |-> ""]

SQLFields == <<"host", "port", "user", "password", "database">>

\* The struct literal built from the five locals.
LocalCredentials ==
    [Host |-> dbHost, User |-> dbUser, Port |-> dbPort, Pass |-> dbPass,
     DatabaseName |-> dbName]

SQLReturn(creds, err) ==
    /\ sq' = "returned"
    /\ sqlCreds' = creds
    /\ sqlErr' = err

sqlRetVars == <<sqlCreds, sqlErr>>
sqlLoopVars == <<round, lastCheck, numChecks, tryAgainAsked, tryAgain>>

InitSQL ==
    /\ sq = "askHost"
    /\ dbHost = "" /\ dbPort = 0 /\ dbUser = "" /\ dbPass = "" /\ dbName = ""
    /\ sqlCreds = NoCredentials
    /\ sqlErr = nil
    /\ round = 1
    /\ entered = NothingEntered
    /\ askedRound = << >>
    /\ lastCheck = [cred |-> NoCredentials, failed |-> FALSE]
    /\ numChecks = 0
    /\ tryAgainAsked = 0
    /\ tryAgain = ""

AskHost ==
    /\ sq = "askHost"
    /\ askedRound' = Append(askedRound, "host")
    /\ \/ /\ SQLReturn(NoCredentials,
                       NewInputError(<<"failed to get postgresql host", "read">>))
          /\ UNCHANGED <<dbHost, entered>>
       \/ \E line \in Hosts :
            /\ dbHost' = line
            /\ entered' = [entered EXCEPT !.Host = line]
            /\ sq' = "askPort"
            /\ UNCHANGED sqlRetVars
    /\ UNCHANGED <<dbPort, dbUser, dbPass, dbName, sqlLoopVars>>
    /\ UNCHANGED <<pipelineVars, pathVars, smVars>>

\* ValidateFunc of the port prompt.
ValidatePort(line) == Atoi(line).ok

\* ui.Ask with Loop: a line that fails ValidateFunc is asked again inside Ask.
AskPort ==
    /\ sq = "askPort"
    /\ \/ /\ askedRound' = Append(askedRound, "port")
          /\ SQLReturn(NoCredentials,
                       NewInputError(<<"failed to get postgresql port", "read">>))
          /\ UNCHANGED <<dbPort, entered>>
       \/ \E line \in PortLines :
            IF ValidatePort(line)
            THEN /\ askedRound' = Append(askedRound, "port")
                 /\ dbPort' = Atoi(line).v
                 /\ entered' = [entered EXCEPT !.Port = line]
                 /\ sq' = "askUser"
                 /\ UNCHANGED sqlRetVars
            ELSE UNCHANGED <<sq, askedRound, dbPort, entered, sqlRetVars>>
    /\ UNCHANGED <<dbHost, dbUser, dbPass, dbName, sqlLoopVars>>
    /\ UNCHANGED <<pipelineVars, pathVars, smVars>>

AskUser ==
    /\ sq = "askUser"
    /\ askedRound' = Append(askedRound, "user")
    /\ \/ /\ SQLReturn(NoCredentials,
                       <<"failed to ask for database user name", "read">>)
          /\ UNCHANGED <<dbUser, entered>>
       \/ \E line \in Users :
            /\ dbUser' = line
            /\ entered' = [entered EXCEPT !.User = line]
            /\ sq' = "askPass"
            /\ UNCHANGED sqlRetVars
    /\ UNCHANGED <<dbHost, dbPort, dbPass, dbName, sqlLoopVars>>
    /\ UNCHANGED <<pipelineVars, pathVars, smVars>>

AskPass ==
    /\ sq = "askPass"
    /\ askedRound' = Append(askedRound, "password")
    /\ \/ /\ SQLReturn(NoCredentials,
                       <<"failed to ask for database password", "read">>)
          /\ UNCHANGED <<dbPass, entered>>
       \/ \E line \in Passwords :
            /\ dbPass' = line
            /\ entered' = [entered EXCEPT !.Pass = line]
            /\ sq' = "askName"
            /\ UNCHANGED sqlRetVars
    /\ UNCHANGED <<dbHost, dbPort, dbUser, dbName, sqlLoopVars>>
    /\ UNCHANGED <<pipelineVars, pathVars, smVars>>

AskName ==
    /\ sq = "askName"
    /\ askedRound' = Append(askedRound, "database")
    /\ \/ /\ SQLReturn(NoCredentials,
                       <<"failed to ask for database name", "read">>)
          /\ UNCHANGED <<dbName, entered>>
       \/ \E line \in DatabaseNames :
            /\ dbName' = line
            /\ entered' = [entered EXCEPT !.DatabaseName = line]
            /\ sq' = "check"
            /\ UNCHANGED sqlRetVars
    /\ UNCHANGED <<dbHost, dbPort, dbUser, dbPass, sqlLoopVars>>
    /\ UNCHANGED <<pipelineVars, pathVars, smVars>>

\* checkFunc called with defaultValue instead of the values just collected.
CheckCredentials_ChecksDefault ==
    /\ sq = "check"
    /\ numChecks' = numChecks + 1
    /\ \E failed \in BOOLEAN :
         /\ lastCheck' = [cred |-> [Host |-> DefaultSQLCredentials.Host,
                                    User |-> DefaultSQLCredentials.User,
                                    Port |-> DefaultSQLCredentials.Port,
                                    Pass |-> DefaultSQLCredentials.Pass,
                                    DatabaseName |-> DefaultSQLCredentials.DatabaseName],
                          failed |-> failed]
         /\ IF failed
            THEN sq' = "tryAgain" /\ UNCHANGED sqlRetVars
            ELSE SQLReturn(LocalCredentials, nil)
    /\ UNCHANGED <<dbHost, dbPort, dbUser, dbPass, dbName, round, entered,
                   askedRound, tryAgainAsked, tryAgain>>
    /\ UNCHANGED <<pipelineVars, pathVars, smVars>>

\* The try-again question asked whatever checkFunc returned.
CheckCredentials_AlwaysAsks ==
    /\ sq = "check"
    /\ numChecks' = numChecks + 1
    /\ \E failed \in BOOLEAN :
         /\ lastCheck' = [cred |-> LocalCredentials, failed |-> failed]
         /\ sq' = "tryAgain"
         /\ UNCHANGED sqlRetVars
    /\ UNCHANGED <<dbHost, dbPort, dbUser, dbPass, dbName, round, entered,
                   askedRound, tryAgainAsked, tryAgain>>
    /\ UNCHANGED <<pipelineVars, pathVars, smVars>>

\* checkFunc(types.SQLCredentials{...}); nil breaks out of the loop to the
\* final return, an error leads to the try-again question.
CheckCredentials ==
    /\ sq = "check"
    /\ numChecks' = numChecks + 1
    /\ \E failed \in BOOLEAN :
         /\ lastCheck' = [cred |-> LocalCredentials, failed |-> failed]
         /\ IF failed
            THEN sq' = "tryAgain" /\ UNCHANGED sqlRetVars
            ELSE SQLReturn(LocalCredentials, nil)
    /\ UNCHANGED <<dbHost, dbPort, dbUser, dbPass, dbName, round, entered,
                   askedRound, tryAgainAsked, tryAgain>>
    /\ UNCHANGED <<pipelineVars, pathVars, smVars>>

\* ValidateFunc of the try-again prompt.
ValidateTryAgain(line) == ToLower(line) \in {"yes", "no"}

\* The comparison without strings.ToLower, looping unless the answer is "no".
LoopAgain_UnlessLowerNo(answer) == answer # "no"

\* `if strings.ToLower(tryAgain) == "yes" { continue }`, otherwise `break`.
LoopAgain(answer) == ToLower(answer) = "yes"

AskTryAgain ==
    /\ sq = "tryAgain"
    /\ \/ /\ tryAgainAsked' = tryAgainAsked + 1
          /\ SQLReturn(NoCredentials, <<"failed to ask for try-again", "read">>)
          /\ UNCHANGED <<round, entered, askedRound, tryAgain>>
       \/ \E line \in Answers :
            IF ~ValidateTryAgain(line)
            THEN UNCHANGED <<sq, tryAgainAsked, tryAgain, round, entered,
                             askedRound, sqlRetVars>>
            ELSE /\ tryAgainAsked' = tryAgainAsked + 1
                 /\ tryAgain' = line
                 /\ IF LoopAgain(line)
                    THEN /\ round < MaxRounds
                         /\ round' = round + 1
                         /\ entered' = NothingEntered
                         /\ askedRound' = << >>
                         /\ sq' = "askHost"
                         /\ UNCHANGED sqlRetVars
                    ELSE /\ SQLReturn(LocalCredentials, nil)
                         /\ UNCHANGED <<round, entered, askedRound>>
    /\ UNCHANGED <<dbHost, dbPort, dbUser, dbPass, dbName, lastCheck, numChecks>>
    /\ UNCHANGED <<pipelineVars, pathVars, smVars>>

NextSQL ==
    \/ AskHost
    \/ AskPort
    \/ AskUser
    \/ AskPass
    \/ AskName
    \/ CheckCredentials
    \/ AskTryAgain

\* =================================================================== AskPath
Paths == {"/home/vega/vega_home", "/home/vega/vegavisor_home", "/home/vega/new_home"}

\* utils.FileExists(s)
FileExists(s, existing) == s \in existing

\* A ValidateFunc that accepts every path.
ValidatePath_AcceptsAll(s, existing) == TRUE

\* ValidateFunc of the path prompt: nil (TRUE) when nothing exists at the path.
ValidatePath(s, existing) == ~FileExists(s, existing)

InitPath ==
    /\ pp = "ask"
    /\ files = {"/home/vega/vega_home"}
    /\ pathResponse = ""
    /\ pathErr = nil
    /\ lastLine = ""
    /\ lastExisted = FALSE
    /\ pathAsks = 0
    /\ homePaths = << >>
    /\ homePathsErr = nil

\* One line read by ui.Ask (Loop: a rejected line is asked again), or the
\* read failing.
AskPath ==
    /\ pp = "ask"
    /\ \/ /\ pathErr' = NewInputError(<<"read">>)
          /\ pp' = "returned"
          /\ UNCHANGED <<pathResponse, lastLine, lastExisted, pathAsks>>
       \/ \E line \in Paths :
            /\ pathAsks < MaxAsks
            /\ pathAsks' = pathAsks + 1
            /\ lastLine' = line
            /\ lastExisted' = FileExists(line, files)
            /\ IF ValidatePath(line, files)
               THEN /\ pathResponse' = line
                    /\ pp' = "returned"
                    /\ UNCHANGED pathErr
               ELSE UNCHANGED <<pp, pathResponse, pathErr>>
    /\ UNCHANGED <<files, homePaths, homePathsErr>>
    /\ UNCHANGED <<pipelineVars, sqlVars, smVars>>

\* Another process creates or removes a path.
FsChange ==
    /\ \E p \in Paths :
         files' = IF p \in files THEN files \ {p} ELSE files \cup {p}
    /\ UNCHANGED <<pp, pathResponse, pathErr, lastLine, lastExisted, pathAsks,
                   homePaths, homePathsErr>>
    /\ UNCHANGED <<pipelineVars, sqlVars, smVars>>

NextPath ==
    \/ AskPath
    \/ FsChange

\* The AskPaths state of the interview: AskPath for the supervisor, node,
\* consensus-layer and data-node home in turn, each answer validated only
\* against the file system; an error of a prompt ends the state.
HomeNames == <<"visor home", "vega home", "tendermint home", "data-node home">>

AskPaths ==
    /\ Len(homePaths) < Len(HomeNames)
    /\ homePathsErr = nil
    /\ \/ /\ homePathsErr' = NewInputError(<<"read">>)
          /\ UNCHANGED homePaths
       \/ \E line \in Paths :
            /\ homePaths' = IF ValidatePath(line, files)
                            THEN Append(homePaths, line)
                            ELSE homePaths
            /\ UNCHANGED homePathsErr
    /\ UNCHANGED <<pp, files, pathResponse, pathErr, lastLine, lastExisted, pathAsks>>
    /\ UNCHANGED <<pipelineVars, sqlVars, smVars>>

NextPaths ==
    \/ AskPaths
    \/ FsChange

\* ======================================================= setup state machine
\* The machine behind state.Run: five states in a line, one field group of the
\* settings per state.  A prompt either returns an answer its validator
\* accepted or ends the machine with the error of an interrupted read.
MachineStates ==
    <<"SelectMode", "AskPaths", "AskSQLCredentials", "BranchOnMode", "Summarize">>

\* What the network-history data source can answer with.
Snapshots ==
    { [BlockHeight |-> h, BlockHash |-> hash] :
        h \in Texts, hash \in BlockHashes \ {""} }

InitMachine ==
    /\ smState = "SelectMode"
    /\ smVisited = << >>
    /\ smSettings = NoSettings
    /\ smErr = nil
    /\ snapshotQuery = "unasked"

MachineFails(err) ==
    /\ smErr' = err
    /\ smState' = "failed"

MachineGoes(next) ==
    /\ smState' = next
    /\ UNCHANGED smErr

\* SelectMode: the mode, with the release and chain named by the network.
StateSelectMode ==
    /\ pc = "stateRun"
    /\ smState = "SelectMode"
    /\ smVisited' = Append(smVisited, "SelectMode")
    /\ \/ /\ MachineFails(NewInputError(<<"read">>))
          /\ UNCHANGED smSettings
       \/ \E m \in StartupModes, ver \in Versions :
            /\ smSettings' = [smSettings EXCEPT !.Mode = m,
                                                !.MainnetVersion = ver,
                                                !.MainnetChainId = "vega-mainnet-0011"]
            /\ MachineGoes("AskPaths")
    /\ UNCHANGED snapshotQuery
    /\ UNCHANGED <<pipelineVars, sqlVars, pathVars>>

\* AskPaths: the four home directories.
StateAskPaths ==
    /\ pc = "stateRun"
    /\ smState = "AskPaths"
    /\ smVisited' = Append(smVisited, "AskPaths")
    /\ \/ /\ MachineFails(NewInputError(<<"read">>))
          /\ UNCHANGED smSettings
       \/ /\ smSettings' = [smSettings EXCEPT
                              !.VisorHome      = "/home/vega/vegavisor_home",
                              !.VegaHome       = "/home/vega/vega_home",
                              !.TendermintHome = "/home/vega/tendermint_home",
                              !.DataNodeHome   = "/home/vega/data_node_home"]
          /\ MachineGoes("AskSQLCredentials")
    /\ UNCHANGED snapshotQuery
    /\ UNCHANGED <<pipelineVars, sqlVars, pathVars>>

\* AskSQLCredentials: the record its prompts and retry loop end with.
StateAskSQLCredentials ==
    /\ pc = "stateRun"
    /\ smState = "AskSQLCredentials"
    /\ smVisited' = Append(smVisited, "AskSQLCredentials")
    /\ \/ /\ MachineFails(NewInputError(<<"read">>))
          /\ UNCHANGED smSettings
       \/ \E c \in ConfigSQLCredentials :
            /\ smSettings' = [smSettings EXCEPT !.SQLCredentials = c]
            /\ MachineGoes("BranchOnMode")
    /\ UNCHANGED snapshotQuery
    /\ UNCHANGED <<pipelineVars, sqlVars, pathVars>>

\* BranchOnMode: in network-history mode the latest snapshot is asked for, once;
\* without one the machine fails.  From block 0 nothing is asked.
StateBranchOnMode ==
    /\ pc = "stateRun"
    /\ smState = "BranchOnMode"
    /\ smVisited' = Append(smVisited, "BranchOnMode")
    /\ IF smSettings.Mode = StartFromNetworkHistory
       THEN \/ /\ snapshotQuery' = "error"
               /\ MachineFails(<<"failed to get latest snapshot", "http">>)
               /\ UNCHANGED smSettings
            \/ /\ snapshotQuery' = "none"
               /\ MachineFails(<<"no snapshot available">>)
               /\ UNCHANGED smSettings
            \/ \E snap \in Snapshots :
                 /\ snapshotQuery' = "found"
                 /\ smSettings' = [smSettings EXCEPT !.LatestSnapshot = snap]
                 /\ MachineGoes("Summarize")
       ELSE /\ MachineGoes("Summarize")
            /\ UNCHANGED <<smSettings, snapshotQuery>>
    /\ UNCHANGED <<pipelineVars, sqlVars, pathVars>>

\* Summarize: printSummary(settings) reads the settings and prints a table.
StateSummarize ==
    /\ pc = "stateRun"
    /\ smState = "Summarize"
    /\ smVisited' = Append(smVisited, "Summarize")
    /\ MachineGoes("done")
    /\ UNCHANGED <<smSettings, snapshotQuery>>
    /\ UNCHANGED <<pipelineVars, sqlVars, pathVars>>

\* ============================================================ specifications
Init == InitPipeline /\ InitSQL /\ InitPath /\ InitMachine

Next ==
    \/ StateSelectMode
    \/ StateAskPaths
    \/ StateAskSQLCredentials
    \/ StateBranchOnMode
    \/ StateSummarize
    \/ StateRun
    \/ MkdirTemp
    \/ DownloadVega
    \/ DownloadVisor
    \/ VegaVersion
    \/ VisorVersion
    \/ InitVisor
    \/ InitTendermint
    \/ InitVega
    \/ InitDataNode
    \/ MkdirAll
    \/ WriteRunConfig
    \/ CopyVisor
    \/ CopyVega
    \/ Symlink
    \/ BuildConfigs
    \/ UpdateDataNodeConfig
    \/ UpdateVegaConfig
    \/ UpdateTendermintConfig
    \/ UpdateVegavisorConfig
    \/ DownloadGenesis

Spec == Init /\ [][Next]_vars

SpecSQL == Init /\ [][NextSQL]_vars

SpecPath == Init /\ [][NextPath]_vars

SpecPaths == Init /\ [][NextPaths]_vars

\* ------------------------------------------------- updateConfigs on its own
\* updateConfigs is a function of the generator's two fields.  Its inputs are
\* drawn here from every generator NewDataNodeGenerator can build: settings
\* of every mode and snapshot, any network configuration whose Repository has
\* the form owner/name.
ConfigSettings ==
    { [s EXCEPT !.SQLCredentials = c] :
        s \in SettingsSpace, c \in ConfigSQLCredentials }

Repositories ==
    { MainnetConfig.Repository,
      <<"o", "r", "g", "/", "p", "r", "o", "j">> }

NetworkConfigs ==
    { [MainnetConfig EXCEPT !.Repository = r] : r \in Repositories }

\* What Run has done when it calls updateConfigs: every earlier step succeeded.
UpdateConfigsEntry ==
    /\ pc = "BuildConfigs"
    /\ stateReturned = TRUE
    /\ stateErr = nil
    /\ setupErr = nil
    /\ runErr = nil
    /\ runReturned = FALSE
    /\ started = <<"downloadVega", "downloadVisor", "vegaVersion", "visorVersion",
                   "initNode", "prepareVisorHome", "copyBinaries">>
    /\ failedStep = ""
    /\ outputDir = TRUE
    /\ removeAllCalled = FALSE
    /\ homesInit = Homes
    /\ initStarted = Homes
    /\ LET dir == copyBinariesVersion(userSettings)
       IN  /\ visorEntries = {"config.toml", "visor", "current", dir}
           /\ createdDirs = {dir}
           /\ dirFiles = (dir :> {"run-config.toml", "vega"})
           /\ currentLink = dir
    /\ symlinkPre = "absent"
    /\ dataNodeConfig = EmptyMap
    /\ vegaConfig = EmptyMap
    /\ tendermintConfig = EmptyMap
    /\ vegavisorConfig = EmptyMap
    /\ docs = [d \in {"data-node", "vega", "tendermint", "visor"} |-> InitialDoc(d)]
    /\ genesisFile = FALSE

InitConfigs ==
    /\ userSettings \in ConfigSettings
    /\ networkConfig \in NetworkConfigs
    /\ UpdateConfigsEntry
    /\ InitSQL
    /\ InitPath
    /\ smState = "done"
    /\ smVisited = MachineStates
    /\ smSettings = userSettings
    /\ smErr = nil
    /\ snapshotQuery =
         IF userSettings.Mode = StartFromNetworkHistory THEN "found" ELSE "unasked"

NextConfigs ==
    \/ BuildConfigs
    \/ UpdateDataNodeConfig
    \/ UpdateVegaConfig
    \/ UpdateTendermintConfig
    \/ UpdateVegavisorConfig

SpecConfigs == InitConfigs /\ [][NextConfigs]_vars

\* ==================================================================== claims
RunSteps ==
    <<"downloadVega", "downloadVisor", "vegaVersion", "visorVersion", "initNode",
      "prepareVisorHome", "copyBinaries", "updateConfigs", "downloadGenesis">>

IsPrefix(a, b) == Len(a) <= Len(b) /\ a = SubSeq(b, 1, Len(a))

\* C1: the steps of Run start in the order download node binary, download
\* supervisor binary, version probe of each, initNode, prepareVisorHome,
\* copyBinaries, updateConfigs, downloadGenesis; once a step has failed it is
\* the last step that started, Run has returned an error, and no effect of a
\* later step exists.
C1_StepsInOrder ==
    /\ IsPrefix(started, RunSteps)
    /\ homesInit # << >> => Len(started) >= 5
    /\ createdDirs # {} => Len(started) >= 6
    /\ "visor" \in visorEntries => Len(started) >= 7
    /\ tendermintConfig # EmptyMap => Len(started) >= 8
    /\ genesisFile => Len(started) = 9
    /\ failedStep # "" =>
         /\ pc = "returned"
         /\ runReturned
         /\ runErr # nil
         /\ setupErr # nil
         /\ IF failedStep = "mkdirTemp"
            THEN started = << >>
            ELSE started # << >> /\ started[Len(started)] = failedStep

C1_Witness ==
    /\ failedStep = "updateConfigs"
    /\ pc = "returned"
    /\ Len(started) = 8

PipelineStarted ==
    \/ outputDir
    \/ runReturned
    \/ started # << >>
    \/ pc \notin {"stateRun", "returned"}

\* C2: the pipeline starts only after state.Run has returned nil, and
\* dataNodeSetup returns nil exactly when the interview and every step of the
\* pipeline succeeded; every other return is an error.
C2_SuccessOnlyWhenAllSucceeded ==
    /\ PipelineStarted => stateReturned /\ stateErr = nil
    /\ pc = "returned" =>
         (setupErr = nil <=>
            /\ stateReturned
            /\ stateErr = nil
            /\ runReturned
            /\ runErr = nil
            /\ failedStep = ""
            /\ started = RunSteps
            /\ homesInit = Homes
            /\ currentLink # ""
            /\ genesisFile)

C2_Witness ==
    /\ pc = "returned"
    /\ setupErr = nil
    /\ genesisFile

\* C3: in mode StartFromBlock0 the only directory the pipeline makes under the
\* supervisor home is "genesis", never one named after the version; in mode
\* StartFromNetworkHistory it is the one named after the version.
C3_VersionedDirName ==
    LET dirs == createdDirs \cup DOMAIN dirFiles
    IN  /\ userSettings.Mode = StartFromBlock0 =>
             /\ dirs \subseteq {"genesis"}
             /\ userSettings.MainnetVersion \notin dirs
        /\ userSettings.Mode = StartFromNetworkHistory =>
             dirs \subseteq {userSettings.MainnetVersion}
        /\ pc \in {"WriteRunConfig", "CopyVisor", "CopyVega", "Symlink"} =>
             createdDirs # {}

C3_Witness ==
    /\ userSettings.Mode = StartFromBlock0
    /\ createdDirs = {"genesis"}
    /\ "vega" \in dirFiles["genesis"]

\* C4: with mode StartFromNetworkHistory, a non-empty block hash and a block
\* height that parses, the consensus-layer key set has statesync.enable = true,
\* statesync.trust_height = the parsed height as an integer, and
\* statesync.trust_hash = the block hash; with mode StartFromBlock0 it has
\* statesync.enable = false.
C4_StateSyncKeys ==
    LET snap  == userSettings.LatestSnapshot
        built == tendermintConfig # EmptyMap
    IN  /\ ( /\ built
             /\ userSettings.Mode = StartFromNetworkHistory
             /\ snap.BlockHash # ""
             /\ Atoi(snap.BlockHeight).ok ) =>
               /\ tendermintConfig["statesync.enable"] = BoolV(TRUE)
               /\ "statesync.trust_height" \in DOMAIN tendermintConfig
               /\ tendermintConfig["statesync.trust_height"].t = "int"
               /\ tendermintConfig["statesync.trust_height"].v
                    = Atoi(snap.BlockHeight).v
               /\ snap.BlockHeight = <<"1", "9">> =>
                    tendermintConfig["statesync.trust_height"].v = 19
               /\ "statesync.trust_hash" \in DOMAIN tendermintConfig
               /\ tendermintConfig["statesync.trust_hash"] = StrV(snap.BlockHash)
        /\ (built /\ userSettings.Mode = StartFromBlock0) =>
               tendermintConfig["statesync.enable"] = BoolV(FALSE)

C4_Witness ==
    /\ pc = "UpdateDataNodeConfig"
    /\ userSettings.Mode = StartFromNetworkHistory
    /\ userSettings.LatestSnapshot = [BlockHeight |-> <<"1", "9">>, BlockHash |-> "ABC"]
    /\ tendermintConfig["statesync.enable"] = BoolV(TRUE)

\* The credentials the operator supplied in the current collection round.
EnteredCredentials ==
    [Host |-> entered.Host, User |-> entered.User, Port |-> Atoi(entered.Port).v,
     Pass |-> entered.Pass, DatabaseName |-> entered.DatabaseName]

\* C5: when the try-again question that follows a failed check is answered
\* "No", AskSQLCredentials returns at once, with a nil error and the
\* credentials entered in that round.
C5_NoReturnsUnverified ==
    [][ (sq = "tryAgain" /\ tryAgain' = "No") =>
           /\ lastCheck.failed
           /\ sq' = "returned"
           /\ sqlErr' = nil
           /\ sqlCreds' = EnteredCredentials ]_vars

C5_Witness ==
    /\ sq = "returned"
    /\ tryAgain = "No"
    /\ sqlErr = nil
    /\ lastCheck.failed
    /\ numChecks = 2
    /\ sqlCreds = EnteredCredentials

\* C6: the try-again question is asked only after a failed check; every round
\* asks host, port, user, password, database in that order, all five before
\* its one check, and a round begun by "yes" starts again at host; a check that
\* succeeds returns without the question being asked.
C6_TryAgainOnlyAfterFailedCheck ==
    /\ IsPrefix(askedRound, SQLFields)
    /\ sq = "askHost" => askedRound = << >> /\ numChecks = round - 1
    /\ sq = "check" => askedRound = SQLFields /\ numChecks = round - 1
    /\ sq = "tryAgain" =>
         /\ lastCheck.failed
         /\ numChecks = round
         /\ tryAgainAsked = round - 1
    /\ tryAgainAsked <= numChecks
    /\ (sq = "returned" /\ sqlErr = nil /\ ~lastCheck.failed) =>
         /\ numChecks = round
         /\ tryAgainAsked = round - 1

C6_Witness ==
    /\ sq = "returned"
    /\ sqlErr = nil
    /\ ~lastCheck.failed
    /\ round = 2
    /\ tryAgain = "yes"
    /\ tryAgainAsked = 1

C8_InitOrder ==
    /\ IsPrefix(initStarted, Homes)
    /\ IsPrefix(homesInit, initStarted)
    /\ Len(initStarted) <= Len(homesInit) + 1
    /\ Len(initStarted) = Len(homesInit) + 1 =>
         /\ failedStep = "initNode"
         /\ pc = "returned"
         /\ setupErr # nil

C8_Witness ==
    /\ failedStep = "initNode"
    /\ initStarted = <<"visor", "tendermint", "vega">>
    /\ homesInit = <<"visor", "tendermint">>

\* C9: when an entry named "current" is already in the supervisor home, the
\* layout step still ends with "current" pointing at the versioned
\* subdirectory and does not fail.
C9_CurrentReplaced ==
    symlinkPre = "present" =>
        /\ currentLink = copyBinariesVersion(userSettings)
        /\ failedStep # "copyBinaries"

\* C10 as stated: statesync.rpc_servers, statesync.trust_height and
\* statesync.trust_hash are in the consensus-layer key set only in mode
\* StartFromNetworkHistory.
C10_StateSyncKeysOnlyInNetworkHistory ==
    (DOMAIN tendermintConfig \cap
        {"statesync.rpc_servers", "statesync.trust_height", "statesync.trust_hash"}) # {}
      => userSettings.Mode = StartFromNetworkHistory

\* C10 amended: statesync.trust_height and statesync.trust_hash are in the
\* consensus-layer key set only in mode StartFromNetworkHistory, while
\* statesync.rpc_servers is in it in both modes.
C10_TrustKeysOnlyInNetworkHistory ==
    /\ (DOMAIN tendermintConfig \cap
          {"statesync.trust_height", "statesync.trust_hash"}) # {}
         => userSettings.Mode = StartFromNetworkHistory
    /\ tendermintConfig # EmptyMap =>
         "statesync.rpc_servers" \in DOMAIN tendermintConfig
    /\ (pc = "UpdateDataNodeConfig" /\ userSettings.Mode = StartFromNetworkHistory) =>
         {"statesync.trust_height", "statesync.trust_hash"}
            \subseteq DOMAIN tendermintConfig

C10_Witness ==
    /\ userSettings.Mode = StartFromBlock0
    /\ pc = "UpdateTendermintConfig"
    /\ "statesync.rpc_servers" \in DOMAIN tendermintConfig

\* C11: every credentials record returned with a nil error has a port between
\* 1 and 65535.
C11_PortInRange ==
    (sq = "returned" /\ sqlErr = nil) => sqlCreds.Port \in 1..65535

\* C13: every error AskSQLCredentials returns because a prompt was aborted or
\* its read failed is of the InputError kind.
C13_AbortIsInputError ==
    (sq = "returned" /\ sqlErr # nil) => sqlErr[1] = "InputError"

\* C20: checkFunc is called once per collection round, with the five values
\* entered in that round, and the record returned after a successful check is
\* the record that check received, made of that round's values only.
C20_CheckedRecordReturned ==
    /\ numChecks \in {round - 1, round}
    /\ sq \in {"askHost", "askPort", "askUser", "askPass", "askName", "check"} =>
         numChecks = round - 1
    /\ (sq = "tryAgain" \/ (sq = "returned" /\ sqlErr = nil)) => numChecks = round
    /\ numChecks = round => lastCheck.cred = EnteredCredentials
    /\ (sq = "returned" /\ sqlErr = nil /\ ~lastCheck.failed) =>
         /\ sqlCreds = lastCheck.cred
         /\ sqlCreds = EnteredCredentials

C20_Witness ==
    /\ sq = "returned"
    /\ sqlErr = nil
    /\ ~lastCheck.failed
    /\ round = 2
    /\ sqlCreds.Host = "db.internal"
    /\ sqlCreds.Pass = "secret"

\* C12: once AskPaths has collected the four home directories they are
\* pairwise distinct.
C12_HomesDistinct ==
    Len(homePaths) = Len(HomeNames) =>
        \A i, j \in 1..Len(homePaths) : i # j => homePaths[i] # homePaths[j]

\* C14: from the handoff of the settings to NewDataNodeGenerator on, no step
\* changes userSettings or networkConfig, whether Run succeeds or fails.
C14_SettingsFrozen ==
    [][ stateReturned =>
          /\ userSettings' = userSettings
          /\ networkConfig' = networkConfig ]_vars

C14_Witness ==
    /\ pc = "returned"
    /\ runReturned
    /\ runErr = nil
    /\ userSettings.Mode = StartFromBlock0
    /\ userSettings.MainnetVersion = "v0.73.0"
    /\ currentLink = "genesis"

\* C15: when Run has returned and the staging directory had been created,
\* os.RemoveAll has been called on it.
C15_StagingRemovalAttempted ==
    (runReturned /\ outputDir) => removeAllCalled

\* C19: prepareVisorHome and copyBinaries compute the same versioned
\* subdirectory for every mode and version; the directory exists before the
\* node binary is copied into it and before the symlink is created; after a
\* successful Run "current" points to the directory that holds both
\* run-config.toml and the node binary.
C19_SameVersionedDirectory ==
    /\ \A s \in SettingsSpace : prepareVisorHomeDir(s) = copyBinariesVersion(s)
    /\ pc \in {"CopyVega", "Symlink"} =>
         /\ copyBinariesVersion(userSettings) \in createdDirs
         /\ copyBinariesVersion(userSettings) \in visorEntries
         /\ "run-config.toml" \in dirFiles[copyBinariesVersion(userSettings)]
    /\ \A d \in DOMAIN dirFiles : "vega" \in dirFiles[d] => d \in createdDirs
    /\ currentLink # "" => currentLink \in createdDirs
    /\ (runReturned /\ runErr = nil) =>
         /\ currentLink = prepareVisorHomeDir(userSettings)
         /\ currentLink = copyBinariesVersion(userSettings)
         /\ {"run-config.toml", "vega"} \subseteq dirFiles[currentLink]

C19_Witness ==
    /\ runReturned
    /\ runErr = nil
    /\ userSettings.Mode = StartFromNetworkHistory
    /\ userSettings.MainnetVersion = "v0.72.14"
    /\ currentLink = "v0.72.14"
    /\ {"run-config.toml", "vega"} \subseteq dirFiles["v0.72.14"]

\* updateConfigs returned from its mode branch: the snapshot of the settings
\* was unusable and no key set was handed to UpdateConfig.
ModeBranchFailed ==
    /\ failedStep = "updateConfigs"
    /\ runErr[2] \in
         {"cannot start vega from the network-history when latest snapshot is empty",
          "failed to convert trust block height from string to int"}

KeySetsBuilt == dataNodeConfig # EmptyMap /\ ~ModeBranchFailed

DataNodeCommonKeys ==
    {"SQLStore.ConnectionConfig.Host", "SQLStore.ConnectionConfig.Port",
     "SQLStore.ConnectionConfig.Username", "SQLStore.ConnectionConfig.Password",
     "SQLStore.ConnectionConfig.Database", "SQLStore.WipeOnStartup",
     "NetworkHistory.Store.BootstrapPeers", "NetworkHistory.Initialise.Timeout",
     "API.RateLimit.Rate", "API.RateLimit.Burst"}

\* C17: the data-node key set updateConfigs hands to UpdateConfig contains
\* AutoInitialiseFromNetworkHistory (= true) if and only if the mode is
\* StartFromNetworkHistory; every other key is present with the same value in
\* both modes: the SQL fields of the settings, wipe-on-startup, bootstrap
\* peers, initialise timeout, rate and burst.
C17_AutoInitialiseOnlyInNetworkHistory ==
    KeySetsBuilt =>
      /\ "AutoInitialiseFromNetworkHistory" \in DOMAIN dataNodeConfig
           <=> userSettings.Mode = StartFromNetworkHistory
      /\ "AutoInitialiseFromNetworkHistory" \in DOMAIN dataNodeConfig
           => dataNodeConfig["AutoInitialiseFromNetworkHistory"] = BoolV(TRUE)
      /\ DOMAIN dataNodeConfig \ {"AutoInitialiseFromNetworkHistory"} = DataNodeCommonKeys
      /\ dataNodeConfig["SQLStore.ConnectionConfig.Host"] = StrV(userSettings.SQLCredentials.Host)
      /\ dataNodeConfig["SQLStore.ConnectionConfig.Port"] = IntV(userSettings.SQLCredentials.Port)
      /\ dataNodeConfig["SQLStore.ConnectionConfig.Username"] = StrV(userSettings.SQLCredentials.User)
      /\ dataNodeConfig["SQLStore.ConnectionConfig.Password"] = StrV(userSettings.SQLCredentials.Pass)
      /\ dataNodeConfig["SQLStore.ConnectionConfig.Database"] = StrV(userSettings.SQLCredentials.DatabaseName)
      /\ dataNodeConfig["SQLStore.WipeOnStartup"] = BoolV(TRUE)
      /\ dataNodeConfig["NetworkHistory.Store.BootstrapPeers"] = ListV(networkConfig.BootstrapPeers)
      /\ dataNodeConfig["NetworkHistory.Initialise.Timeout"] = StrV("4h")
      /\ dataNodeConfig["API.RateLimit.Rate"] = FloatV(300)
      /\ dataNodeConfig["API.RateLimit.Burst"] = IntV(1000)

C17_Witness ==
    /\ pc = "UpdateVegaConfig"
    /\ userSettings.Mode = StartFromNetworkHistory
    /\ userSettings.SQLCredentials.Host = "db.internal"
    /\ dataNodeConfig["AutoInitialiseFromNetworkHistory"] = BoolV(TRUE)
    /\ docs["data-node"]["AutoInitialiseFromNetworkHistory"] = BoolV(TRUE)
    /\ docs["data-node"]["SQLStore.ConnectionConfig.Port"] = IntV(6432)

\* The owner and the name of each repository identifier.
RepositoryOwner(r) == IF r = MainnetConfig.Repository THEN "vegaprotocol" ELSE "org"
RepositoryName(r)  == IF r = MainnetConfig.Repository THEN "vega" ELSE "proj"

\* C18 as stated: the name part of the auto-install asset follows the
\* repository identifier, "proj-linux-amd64.zip" for "org/proj" on linux/amd64.
C18_AssetNameFollowsRepository ==
    vegavisorConfig # EmptyMap =>
      vegavisorConfig["autoInstall.asset.name"] =
        StrV(RepositoryName(networkConfig.Repository) \o "-linux-amd64.zip")

\* C18: the auto-install asset is named after the node binary,
\* "vega-linux-amd64.zip" on linux/amd64 for every repository identifier of the
\* form owner/name, and the binary name is "vega"; the repository identifier
\* determines only the repositoryOwner and repository keys.
C18_AssetNameFollowsBinary ==
    vegavisorConfig # EmptyMap =>
      /\ vegavisorConfig["autoInstall.asset.name"] = StrV("vega-linux-amd64.zip")
      /\ vegavisorConfig["autoInstall.asset.binaryName"] = StrV("vega")
      /\ vegavisorConfig["autoInstall.repositoryOwner"] =
           StrV(RepositoryOwner(networkConfig.Repository))
      /\ vegavisorConfig["autoInstall.repository"] =
           StrV(RepositoryName(networkConfig.Repository))

C18_Witness ==
    /\ pc = "DownloadGenesis"
    /\ networkConfig.Repository = <<"o", "r", "g", "/", "p", "r", "o", "j">>
    /\ docs["visor"]["autoInstall.repository"] = StrV("proj")
    /\ docs["visor"]["autoInstall.asset.name"] = StrV("vega-linux-amd64.zip")

IsIntegerText(h) ==
    LET body == IF Len(h) > 0 /\ h[1] \in {"+", "-"} THEN SubSeq(h, 2, Len(h)) ELSE h
    IN  /\ Len(body) > 0
        /\ \A i \in 1..Len(body) :
             body[i] \in {"0", "1", "2", "3", "4", "5", "6", "7", "8", "9"}

UnusableSnapshot ==
    /\ userSettings.Mode = StartFromNetworkHistory
    /\ \/ userSettings.LatestSnapshot.BlockHash = ""
       \/ ~IsIntegerText(userSettings.LatestSnapshot.BlockHeight)

\* C21: in mode StartFromNetworkHistory, when the snapshot's block hash is
\* empty or its block height is not an integer, the call of updateConfigs
\* returns an error and leaves all four configuration documents unchanged.
C21_NoWriteOnUnusableSnapshot ==
    [][ (pc = "BuildConfigs" /\ UnusableSnapshot) =>
          /\ docs' = docs
          /\ pc' = "returned"
          /\ runReturned'
          /\ runErr' # nil
          /\ setupErr' # nil
          /\ failedStep' = "updateConfigs" ]_vars

C21_Witness ==
    /\ pc = "returned"
    /\ ModeBranchFailed
    /\ userSettings.Mode = StartFromNetworkHistory
    /\ userSettings.LatestSnapshot = [BlockHeight |-> <<"1", "x">>, BlockHash |-> "ABC"]
    /\ \A d \in DOMAIN docs : docs[d] = InitialDoc(d)
====
